---- MODULE Spec2Model ----
(***************************************************************************)
(* The localhost gateway of plugins/localhost/src/lib.rs: the accept loop, *)
(* the per-connection request handler (WebSocket upgrade, served asset,    *)
(* dev-server proxy, not found) and the WebSocket tunnel with its two      *)
(* relays.  Every await of the source is a point where tasks interleave,   *)
(* so a handler is one action per stretch of code between two awaits.      *)
(***************************************************************************)
EXTENDS Integers, Sequences, FiniteSets, TLC

\* Bounds of the model.
MaxConns == 2
MaxReqs == 2
MaxMsgs == 2

None == "None"

(***************************************************************************)
(* URLs and paths.  A request path is the sequence of its segments:        *)
(* "/api" is <<"api">>, "//" is <<"", "">>.  A URL is a record of scheme,  *)
(* host and path.                                                          *)
(***************************************************************************)
SpecialSchemes == {"http", "https", "ws", "wss", "ftp"}

HttpDevUrl == [scheme |-> "http", host |-> "localhost:1420", path |-> <<"">>]

CustomDevUrl == [scheme |-> "tauri", host |-> "localhost", path |-> <<"">>]

\* Option<Url>::None, and the Err of a failed join or set_scheme.
NoUrl == [scheme |-> None, host |-> "", path |-> <<>>]

ErrUrl == [scheme |-> "Err", host |-> "", path |-> <<>>]

DevUrls == {NoUrl, HttpDevUrl, CustomDevUrl}

\* The segments left once the leading empty ones are skipped.
RECURSIVE SkipSlashes(_)
SkipSlashes(segs) ==
    IF segs # <<>> /\ segs[1] = "" THEN SkipSlashes(Tail(segs)) ELSE segs

\* The URL with the authority and path that follow a leading "//".
Authority(base, segs) ==
    [scheme |-> base.scheme, host |-> segs[1],
     path |-> IF Len(segs) > 1 THEN Tail(segs) ELSE <<"">>]

\* Url::join with a reference that starts with "/".  A reference starting
\* with "//" names a new authority: for a special scheme the parser skips
\* every further slash and an empty host is the error EmptyHost; a
\* non-special scheme takes the host as it stands.  Any other reference
\* replaces the base's path.
Join(base, path) ==
    IF Len(path) >= 2 /\ path[1] = ""
    THEN IF base.scheme \in SpecialSchemes
         THEN IF SkipSlashes(path) = <<>> THEN ErrUrl
              ELSE Authority(base, SkipSlashes(path))
         ELSE Authority(base, Tail(path))
    ELSE [scheme |-> base.scheme, host |-> base.host, path |-> path]

\* Url::set_scheme: refused between a special and a non-special scheme.
SetScheme(url, scheme) ==
    IF (scheme \in SpecialSchemes) # (url.scheme \in SpecialSchemes)
    THEN ErrUrl
    ELSE [url EXCEPT !.scheme = scheme]

(***************************************************************************)
(* The asset resolver (external): path -> Asset{bytes, mime_type,          *)
(* csp_header}.  Its MIME types are those of tauri's MimeType, all valid   *)
(* header values.                                                          *)
(***************************************************************************)
IndexPath == <<"index.html">>
StylePath == <<"style.css">>
ApiPath == <<"api">>
SlashPath == <<"", "">>
PagePath == <<"page.html">>

Paths == {IndexPath, StylePath, ApiPath, SlashPath}

\* A policy written on two lines: a string that is no valid header value.
TwoLinePolicy == "default-src\n'self'"

Assets ==
    (IndexPath :> [bytes |-> "<h1>hi</h1>", mime_type |-> "text/html",
                   csp_header |-> "default-src 'self'"])
    @@ (StylePath :> [bytes |-> "body{}", mime_type |-> "text/css",
                      csp_header |-> None])
    @@ (PagePath :> [bytes |-> "<p>page</p>", mime_type |-> "text/html",
                     csp_header |-> TwoLinePolicy])

NoAsset == [bytes |-> "", mime_type |-> None, csp_header |-> None]

\* AssetResolver::get
ResolverGet(path) == IF path \in DOMAIN Assets THEN Assets[path] ELSE NoAsset

(***************************************************************************)
(* Requests.  Headers are a set of <<name, value>> pairs; the body is the  *)
(* payload that follows them, "" when there is none.                       *)
(***************************************************************************)
PlainHeaders == {<<"accept", "*/*">>}
JsonHeaders == {<<"content-type", "application/json">>, <<"x-token", "t">>}
WsHeaders == {<<"connection", "upgrade">>, <<"upgrade", "websocket">>,
              <<"sec-websocket-version", "13">>, <<"sec-websocket-key", "k">>}
WsNoKeyHeaders == {<<"connection", "upgrade">>, <<"upgrade", "websocket">>,
                   <<"sec-websocket-version", "13">>}

JsonBody == "{a:1}"

Shapes == {<<"GET", PlainHeaders, "">>, <<"POST", JsonHeaders, JsonBody>>,
           <<"GET", WsHeaders, "">>, <<"GET", WsNoKeyHeaders, "">>}

Requests ==
    {[method |-> s[1], path |-> p, headers |-> s[2], body |-> s[3]] : s \in Shapes, p \in Paths}

NoReq == [method |-> None, path |-> <<>>, headers |-> {}, body |-> ""]

\* The plain request for the page whose policy is written on two lines.
PageRequests ==
    {[method |-> "GET", path |-> PagePath, headers |-> PlainHeaders, body |-> ""]}

\* hyper_tungstenite::is_upgrade_request
IsUpgradeRequest(r) ==
    /\ <<"connection", "upgrade">> \in r.headers
    /\ <<"upgrade", "websocket">> \in r.headers

\* hyper_tungstenite::upgrade: Ok unless the key or the version is missing.
UpgradeOk(r) ==
    /\ \E h \in r.headers : h[1] = "sec-websocket-key"
    /\ <<"sec-websocket-version", "13">> \in r.headers

(***************************************************************************)
(* Responses.  Header names are case-insensitive on the wire: parsing a    *)
(* name into a HeaderName lower-cases it.                                  *)
(***************************************************************************)
NoResp == [status |-> 0, headers |-> {}, body |-> ""]

LowerName ==
    ("Content-Type" :> "content-type")
    @@ ("Content-Security-Policy" :> "content-security-policy")

\* name.parse::<HeaderName>()
HeaderNameOk(name) == name \in DOMAIN LowerName

\* value.parse::<HeaderValue>(): no control characters.
InvalidHeaderValues == {TwoLinePolicy}

HeaderValueOk(value) == value \notin InvalidHeaderValues

\* LocalResponse::add_header: HashMap::insert, the last write of a key wins.
AddHeader(h, name, value) ==
    [n \in DOMAIN h \cup {name} |-> IF n = name THEN value ELSE h[n]]

NoHeaders == [n \in {} |-> ""]

\* Mutant: an asset without a policy is given the fixed one.
AssetLocalHeadersFixedCsp(asset) ==
    AddHeader(AddHeader(NoHeaders, "Content-Type", asset.mime_type),
              "Content-Security-Policy",
              IF asset.csp_header # None THEN asset.csp_header ELSE "default-src 'none'")

\* The headers of LocalResponse for an asset.
AssetLocalHeaders(asset) ==
    LET h1 == AddHeader(NoHeaders, "Content-Type", asset.mime_type)
    IN  IF asset.csp_header # None
        THEN AddHeader(h1, "Content-Security-Policy", asset.csp_header)
        ELSE h1

\* The loop over local_response.headers: a header whose name or value does
\* not parse is dropped.
WireHeaders(h) ==
    {<<LowerName[n], h[n]>> : n \in {m \in DOMAIN h : HeaderNameOk(m) /\ HeaderValueOk(h[m])}}

AssetResponse(asset) ==
    [status |-> 200, headers |-> WireHeaders(AssetLocalHeaders(asset)), body |-> asset.bytes]

NotFoundResponse ==
    [status |-> 404,
     headers |-> {<<"content-type", "text/html">>,
                  <<"content-security-policy", "default-src 'none'">>},
     body |-> ""]

BadGatewayResponse == [status |-> 502, headers |-> {}, body |-> ""]

\* hyper_tungstenite::upgrade's response.
UpgradeResponse ==
    [status |-> 101,
     headers |-> {<<"connection", "upgrade">>, <<"upgrade", "websocket">>,
                  <<"sec-websocket-accept", "a">>},
     body |-> ""]

\* What the dev server may answer.
UpstreamResponses ==
    {[status |-> 200, headers |-> {<<"content-type", "text/plain">>}, body |-> "pong"],
     [status |-> 500, headers |-> {<<"x-error", "1">>}, body |-> "oops"]}

\* The response built from proxy_res and the body read from it.
ProxyResponse(proxy_res, body) ==
    [status |-> proxy_res.status, headers |-> proxy_res.headers, body |-> body]

\* The body of the request reqwest sends: the builder is given a method, a
\* URL and headers and no body, so the request goes out with an empty one.
ProxyBody(r) == ""

\* The request reqwest sends: method, url and the copied headers.
ProxyRequest(r, url) ==
    [method |-> r.method, url |-> url, headers |-> r.headers, body |-> ProxyBody(r)]

\* WebSocket messages, forwarded as opaque values.
Messages == {"Text", "Ping", "Close"}

Peers == {"client", "server"}

Other(p) == IF p = "client" THEN "server" ELSE "client"

Conns == 1 .. MaxConns

(***************************************************************************)
(* State.                                                                  *)
(*   is_dev, dev_url   the configuration captured by the server future     *)
(*   on_request        the response-mutation hook of the configuration     *)
(*   acceptor          the accept loop                                     *)
(*   nconn             connections accepted so far (connections 1..nconn)  *)
(*   nreq, nmsg        requests read and messages sent so far              *)
(*   conn[c]           the connection task of c                            *)
(*   pc[c]             where the handler of c's current request stands     *)
(*   req[c]            the request being handled on c                      *)
(*   routes[c]         the branches the handler has entered for req[c]     *)
(*   upstream[c]       the requests sent to the dev server for req[c]      *)
(*   proxy_res[c]      the dev server's response head for req[c]           *)
(*   uout[c]           how the exchange with the dev server ended          *)
(*   resp[c]           the response returned for req[c]                    *)
(*   hookCalls[c]      the invocations of the hook for req[c]              *)
(*   tunnel[c]         the tunnel task spawned by an upgrade on c          *)
(*   sentBy[c][p]      the messages peer p has sent into the tunnel        *)
(*   rd[c][p]          how many of them the relay reading from p has read  *)
(*   got[c][p]         the messages delivered to peer p                    *)
(*   down[c][p]        whether p's side of the tunnel has closed/errored   *)
(*   relay[c][p]       the relay that reads from p                         *)
(*   resolver_lock     the RwLock around the resolver: the handlers that   *)
(*                     hold a read guard, and the holder of the write      *)
(*                     guard (0: nobody)                                   *)
(*   last_accept       the outcome of the latest listener.accept()         *)
(*   sent[c]           the requests the client has written on c, in order  *)
(*   wire[c]           the responses written on c, each with the request   *)
(*                     the handler answered with it                        *)
(***************************************************************************)
VARIABLES is_dev, dev_url, on_request, acceptor, nconn, nreq, nmsg, conn, pc, req,
          routes, upstream, proxy_res, uout, resp, hookCalls, tunnel, sentBy, rd, got,
          down, relay, resolver_lock, last_accept, sent, wire

config == <<is_dev, dev_url, on_request>>

http == <<pc, req, routes, upstream, proxy_res, uout, resp, hookCalls, resolver_lock>>

ws == <<sentBy, rd, got, down, relay>>

pipe == <<sent, wire>>

vars == <<is_dev, dev_url, on_request, acceptor, nconn, nreq, nmsg, conn, pc, req,
          routes, upstream, proxy_res, uout, resp, hookCalls, tunnel, sentBy, rd, got,
          down, relay, resolver_lock, last_accept, sent, wire>>

\* The lock as Arc::new(RwLock::new(asset_resolver)) leaves it.
Unlocked == [readers |-> {}, writer |-> 0]

NoTunnel == [state |-> "none", url |-> NoUrl]

\* The tasks and connections right after Builder::build's setup.
InitTasks ==
    /\ acceptor = "accepting"
    /\ nconn = 0
    /\ nreq = 0
    /\ nmsg = 0
    /\ conn = [c \in Conns |-> "none"]
    /\ pc = [c \in Conns |-> "idle"]
    /\ req = [c \in Conns |-> NoReq]
    /\ routes = [c \in Conns |-> {}]
    /\ upstream = [c \in Conns |-> <<>>]
    /\ proxy_res = [c \in Conns |-> NoResp]
    /\ uout = [c \in Conns |-> None]
    /\ resp = [c \in Conns |-> NoResp]
    /\ hookCalls = [c \in Conns |-> 0]
    /\ tunnel = [c \in Conns |-> NoTunnel]
    /\ sentBy = [c \in Conns |-> [p \in Peers |-> <<>>]]
    /\ rd = [c \in Conns |-> [p \in Peers |-> 0]]
    /\ got = [c \in Conns |-> [p \in Peers |-> <<>>]]
    /\ down = [c \in Conns |-> [p \in Peers |-> "up"]]
    /\ relay = [c \in Conns |-> [p \in Peers |-> "none"]]
    /\ resolver_lock = Unlocked
    /\ last_accept = "none"
    /\ sent = [c \in Conns |-> <<>>]
    /\ wire = [c \in Conns |-> <<>>]

\* Builder holds a port and a host only: no hook can be registered.
Init ==
    /\ is_dev \in BOOLEAN
    /\ dev_url \in DevUrls
    /\ on_request = None
    /\ InitTasks

(***************************************************************************)
(* The accept loop: each accepted connection is served by a task of its    *)
(* own.                                                                    *)
(***************************************************************************)
Accept ==
    /\ acceptor = "accepting"
    /\ nconn < MaxConns
    /\ nconn' = nconn + 1
    /\ conn' = [conn EXCEPT ![nconn + 1] = "open"]
    /\ last_accept' = "ok"
    /\ UNCHANGED <<config, pipe, acceptor, nreq, nmsg, http, tunnel, ws>>

\* Mutant: the loop is left on the first failed accept.
AfterAcceptErrStops(acc) == "stopped"

\* The loop after listener.accept().await gave an Err: if let Ok(..) does
\* not match, the body is skipped and the loop goes round.
AfterAcceptErr(acc) == acc

\* listener.accept().await fails.
AcceptErr ==
    /\ acceptor = "accepting"
    /\ last_accept' = "err"
    /\ acceptor' = AfterAcceptErr(acceptor)
    /\ UNCHANGED <<config, pipe, nconn, nreq, nmsg, conn, http, tunnel, ws>>

\* Mutant: a panic in a task takes the accept loop down with it.
TaskPanickedStopsAcceptor(acc) == "stopped"

\* A panic in a task spawned with tokio::spawn ends that task only.
TaskPanicked(acc) == acc

(***************************************************************************)
(* The request handler, up to its first await: the upgrade branch as a     *)
(* whole, or the path of a plain request.                                  *)
(***************************************************************************)
\* Mutant: the next request of a connection is read and handled while the
\* handler of the previous one is still running.
ConnReadyAlways(p) == TRUE

\* http1 serve_connection calls the service for the next request of a
\* connection only once the previous request's response is complete.
ConnReady(p) == p \in {"idle", "done"}

CallHandler(c, r) ==
    /\ conn[c] = "open"
    /\ ConnReady(pc[c])
    /\ nreq < MaxReqs
    /\ nreq' = nreq + 1
    /\ req' = [req EXCEPT ![c] = r]
    /\ upstream' = [upstream EXCEPT ![c] = <<>>]
    /\ proxy_res' = [proxy_res EXCEPT ![c] = NoResp]
    /\ uout' = [uout EXCEPT ![c] = None]
    /\ hookCalls' = [hookCalls EXCEPT ![c] = 0]
    /\ IF IsUpgradeRequest(r)
       THEN /\ routes' = [routes EXCEPT ![c] = {"UpgradeToWebSocket"}]
            /\ IF UpgradeOk(r)
               THEN /\ resp' = [resp EXCEPT ![c] = UpgradeResponse]
                    /\ pc' = [pc EXCEPT ![c] = "done"]
                    /\ conn' = [conn EXCEPT ![c] = "upgraded"]
                    /\ tunnel' = [tunnel EXCEPT ![c] = [state |-> "spawned", url |-> NoUrl]]
               ELSE /\ resp' = [resp EXCEPT ![c] = NoResp]
                    /\ pc' = [pc EXCEPT ![c] = "error"]
                    /\ conn' = [conn EXCEPT ![c] = "closed"]
                    /\ UNCHANGED tunnel
       ELSE /\ routes' = [routes EXCEPT ![c] = {}]
            /\ resp' = [resp EXCEPT ![c] = NoResp]
            /\ pc' = [pc EXCEPT ![c] = "lock"]
            /\ UNCHANGED <<conn, tunnel>>
    /\ UNCHANGED <<config, last_accept, acceptor, nconn, nmsg, ws, resolver_lock>>

\* A request arrives on connection c and is handled at once.
HandleRequest(c, r) ==
    /\ CallHandler(c, r)
    /\ UNCHANGED pipe

RECURSIVE SentUpTo(_)
SentUpTo(c) == IF c = 0 THEN 0 ELSE Len(sent[c]) + SentUpTo(c - 1)

\* The client writes a request on connection c, without waiting for the
\* responses to those it wrote before.
ClientSend(c, r) ==
    /\ conn[c] = "open"
    /\ SentUpTo(MaxConns) < MaxReqs
    /\ sent' = [sent EXCEPT ![c] = Append(@, r)]
    /\ UNCHANGED <<config, last_accept, acceptor, nconn, nreq, nmsg, conn, http, tunnel, ws, wire>>

\* The requests of connection c the service has been called for.
NRead(c) == Len(wire[c]) + IF pc[c] = "idle" THEN 0 ELSE 1

\* serve_connection on a keep-alive connection: the response of the request
\* just handled is written, then the next request the client wrote is parsed
\* and the service is called for it.
ReadRequest(c) ==
    /\ NRead(c) < Len(sent[c])
    /\ CallHandler(c, sent[c][NRead(c) + 1])
    /\ wire' = [wire EXCEPT ![c] =
                  IF pc[c] = "done" THEN Append(@, [req |-> req[c], resp |-> resp[c]]) ELSE @]
    /\ UNCHANGED sent

\* Mutant: the path is kept in a slot shared by the handlers, so that a
\* request waiting for the resolver overwrites it.
HandlerPathShared(c) ==
    LET waiting == {d \in Conns : d # c /\ pc[d] = "lock"}
    IN  IF waiting # {} THEN req[CHOOSE d \in waiting : TRUE].path ELSE req[c].path

\* The path the handler of c looks up and proxies: its own request's.
HandlerPath(c) == req[c].path

\* Mutant: the dev proxy is tried before the resolver's asset.
BranchesTakenDevFirst(asset) ==
    IF is_dev /\ dev_url # NoUrl THEN {"ProxyHttp"}
    ELSE IF asset # NoAsset THEN {"ServeAsset"}
    ELSE {"NotFound"}

\* Mutant: the asset branch is not chained to the other two by an else.
BranchesTakenNoElse(asset) ==
    (IF asset # NoAsset THEN {"ServeAsset"} ELSE {})
        \cup (IF is_dev /\ dev_url # NoUrl THEN {"ProxyHttp"} ELSE {"NotFound"})

\* The if / else if / else chain after the resolver lookup.
BranchesTaken(asset) ==
    IF asset # NoAsset THEN {"ServeAsset"}
    ELSE IF is_dev /\ dev_url # NoUrl THEN {"ProxyHttp"}
    ELSE {"NotFound"}

(***************************************************************************)
(* After asset_resolver.read().await: the lookup, then the asset response, *)
(* the not-found response, or the proxy request up to proxy_req.send().    *)
(***************************************************************************)
\* Mutant: the handler takes the lock with write().
WriteLocked(lock, c) == [lock EXCEPT !.writer = c]

\* asset_resolver.read().await: granted while nobody holds the write guard.
CanRead(lock) == lock.writer = 0

ReadLocked(lock, c) == [lock EXCEPT !.readers = @ \cup {c}]

\* The guard of c's handler is dropped, at its return or by its panic.
Released(lock, c) ==
    [readers |-> lock.readers \ {c}, writer |-> IF lock.writer = c THEN 0 ELSE lock.writer]

Lookup(c) ==
    /\ pc[c] = "lock"
    /\ CanRead(resolver_lock)
    /\ LET path == HandlerPath(c)
           asset == ResolverGet(path)
           taken == BranchesTaken(asset)
       IN  /\ routes' = [routes EXCEPT ![c] = @ \cup taken]
           /\ \E rt \in taken :
                CASE rt = "ServeAsset" ->
                       /\ resp' = [resp EXCEPT ![c] = AssetResponse(asset)]
                       /\ pc' = [pc EXCEPT ![c] = "done"]
                       /\ UNCHANGED <<conn, upstream, acceptor>>
                  [] rt = "ProxyHttp" ->
                       LET url == Join(dev_url, path)
                       IN  IF url = ErrUrl
                           THEN /\ pc' = [pc EXCEPT ![c] = "panicked"]
                                /\ conn' = [conn EXCEPT ![c] = "panicked"]
                                /\ acceptor' = TaskPanicked(acceptor)
                                /\ UNCHANGED <<resp, upstream>>
                           ELSE /\ upstream' = [upstream EXCEPT ![c] =
                                                   Append(@, ProxyRequest(req[c], url))]
                                /\ pc' = [pc EXCEPT ![c] = "send"]
                                /\ UNCHANGED <<resp, conn, acceptor>>
                  [] rt = "NotFound" ->
                       /\ resp' = [resp EXCEPT ![c] = NotFoundResponse]
                       /\ pc' = [pc EXCEPT ![c] = "done"]
                       /\ UNCHANGED <<conn, upstream, acceptor>>
    /\ resolver_lock' = IF pc'[c] = "send"
                        THEN ReadLocked(resolver_lock, c)
                        ELSE Released(ReadLocked(resolver_lock, c), c)
    /\ UNCHANGED <<config, last_accept, pipe, nconn, nreq, nmsg, req, proxy_res, uout, hookCalls,
                   tunnel, ws>>

\* proxy_req.send().await answers Ok(proxy_res): only an http(s) URL can.
SendOk(c, ur) ==
    /\ pc[c] = "send"
    /\ upstream[c][Len(upstream[c])].url.scheme \in {"http", "https"}
    /\ proxy_res' = [proxy_res EXCEPT ![c] = ur]
    /\ pc' = [pc EXCEPT ![c] = "body"]
    /\ UNCHANGED <<config, last_accept, pipe, acceptor, nconn, nreq, nmsg, conn, req, routes,
                   upstream, uout, resp, hookCalls, tunnel, ws, resolver_lock>>

\* proxy_req.send().await answers Err: 502.
SendErr(c) ==
    /\ pc[c] = "send"
    /\ resp' = [resp EXCEPT ![c] = BadGatewayResponse]
    /\ uout' = [uout EXCEPT ![c] = "send_err"]
    /\ pc' = [pc EXCEPT ![c] = "done"]
    /\ resolver_lock' = Released(resolver_lock, c)
    /\ UNCHANGED <<config, last_accept, pipe, acceptor, nconn, nreq, nmsg, conn, req, routes,
                   upstream, proxy_res, hookCalls, tunnel, ws>>

\* proxy_res.bytes().await.unwrap_or_default()
BodyOrDefault(result, body) == IF result = "ok" THEN body ELSE ""

\* The body of proxy_res arrives, or its transfer fails.
ReadBody(c, result) ==
    /\ pc[c] = "body"
    /\ resp' = [resp EXCEPT ![c] =
                  ProxyResponse(proxy_res[c], BodyOrDefault(result, proxy_res[c].body))]
    /\ uout' = [uout EXCEPT ![c] = IF result = "ok" THEN "ok" ELSE "body_err"]
    /\ pc' = [pc EXCEPT ![c] = "done"]
    /\ resolver_lock' = Released(resolver_lock, c)
    /\ UNCHANGED <<config, last_accept, pipe, acceptor, nconn, nreq, nmsg, conn, req, routes,
                   upstream, proxy_res, hookCalls, tunnel, ws>>

(***************************************************************************)
(* The tunnel task spawned by the upgrade branch.                          *)
(***************************************************************************)
\* dev_url.unwrap(), dev_url.join(&path).unwrap(), set_scheme("ws").unwrap():
\* the proxy URL, or ErrUrl where one of the three panics.
ProxyWsUrl(path) ==
    IF dev_url = NoUrl THEN ErrUrl
    ELSE IF Join(dev_url, path) = ErrUrl THEN ErrUrl
    ELSE SetScheme(Join(dev_url, path), "ws")

TunnelStart(c) ==
    /\ tunnel[c].state = "spawned"
    /\ LET url == ProxyWsUrl(HandlerPath(c))
       IN  IF url = ErrUrl
           THEN /\ tunnel' = [tunnel EXCEPT ![c].state = "panicked"]
                /\ acceptor' = TaskPanicked(acceptor)
           ELSE /\ tunnel' = [tunnel EXCEPT ![c] = [state |-> "upgrading", url |-> url]]
                /\ UNCHANGED acceptor
    /\ UNCHANGED <<config, last_accept, pipe, nconn, nreq, nmsg, conn, http, ws>>

\* ws.await?: the inbound handshake completes and connect_async is called,
\* or it fails and handle_ws returns the error, which is printed.
WsAwait(c, ok) ==
    /\ tunnel[c].state = "upgrading"
    /\ tunnel' = [tunnel EXCEPT ![c].state = IF ok THEN "connecting" ELSE "failed_handshake"]
    /\ UNCHANGED <<config, last_accept, pipe, acceptor, nconn, nreq, nmsg, conn, http, ws>>

\* Mutant: the relays are started before the outcome of connect_async is
\* looked at.
RelaysStartAnyway(ok, old) == [p \in Peers |-> "run"]

\* The relays after connect_async(..).await?: both loops are entered only
\* past the ?, on Ok.
RelaysAfterConnect(ok, old) == IF ok THEN [p \in Peers |-> "run"] ELSE old

\* connect_async(proxy_url).await?: the dev server accepts and both relays
\* start, or it fails and handle_ws returns the error.
Connect(c, ok) ==
    /\ tunnel[c].state = "connecting"
    /\ tunnel' = [tunnel EXCEPT ![c].state = IF ok THEN "open" ELSE "failed_connect"]
    /\ relay' = [relay EXCEPT ![c] = RelaysAfterConnect(ok, @)]
    /\ UNCHANGED <<config, last_accept, pipe, acceptor, nconn, nreq, nmsg, conn, http, sentBy,
                   rd, got, down>>

\* A peer of an established tunnel sends a message.
PeerSend(c, p, m) ==
    /\ tunnel[c].state \in {"open", "finished"}
    /\ down[c][p] = "up"
    /\ nmsg < MaxMsgs
    /\ nmsg' = nmsg + 1
    /\ sentBy' = [sentBy EXCEPT ![c][p] = Append(@, m)]
    /\ UNCHANGED <<config, last_accept, pipe, acceptor, nconn, nreq, conn, http, tunnel, rd,
                   got, down, relay>>

\* A peer closes or loses its side of the tunnel: what it had sent can still
\* be read, and a send to it fails from then on.
PeerDown(c, p) ==
    /\ tunnel[c].state \in {"open", "finished"}
    /\ down[c][p] = "up"
    /\ down' = [down EXCEPT ![c][p] = "down"]
    /\ UNCHANGED <<config, last_accept, pipe, acceptor, nconn, nreq, nmsg, conn, http, tunnel,
                   sentBy, rd, got, relay>>

\* Mutant: the relay answers a ping itself instead of passing it on.
ForwardedAnswersPing(m) == IF m = "Ping" THEN "Pong" ELSE m

\* What a relay hands to the write half for a message it read.
Forwarded(m) == m

\* write.send(message).await: delivered, or an error that is only logged.
SendTo(delivered, isUp, m) == IF isUp THEN Append(delivered, Forwarded(m)) ELSE delivered

\* Mutant: a failed send breaks out of the relay loop.
AfterSendBreaks(isUp) == IF isUp THEN "run" ELSE "done"

\* The relay after write.send(message).await: the loop goes on whether the
\* send succeeded or not.
AfterSend(isUp) == "run"

\* One turn of a relay loop: read.next() yields Some(Ok(message)), which is
\* sent to the other side.
RelayForward(c, p) ==
    /\ relay[c][p] = "run"
    /\ rd[c][p] < Len(sentBy[c][p])
    /\ rd' = [rd EXCEPT ![c][p] = @ + 1]
    /\ got' = [got EXCEPT ![c][Other(p)] =
                 SendTo(@, down[c][Other(p)] = "up", sentBy[c][p][rd[c][p] + 1])]
    /\ relay' = [relay EXCEPT ![c][p] = AfterSend(down[c][Other(p)] = "up")]
    /\ UNCHANGED <<config, last_accept, pipe, acceptor, nconn, nreq, nmsg, conn, http, tunnel,
                   sentBy, down>>

\* Mutant: the loop is not left when the read half ends or errs.
AfterReadNeverEnds(item) == "run"

\* The relay after read.next().await yielded something that does not match
\* Some(Ok(message)): the while-let loop is left.
AfterRead(item) == IF item \in {"None", "Some(Err)"} THEN "done" ELSE "run"

\* Mutant: the end of one relay aborts the other.
Aborted(r) == IF r = "run" THEN "done" ELSE r

\* The other relay of the tunnel when one ends: the two run as separate
\* tasks and neither holds a handle on the other.
Detached(r) == r

\* read.next() yields None (the peer closed) or Some(Err(_)) (its side
\* broke): either ends the while-let loop.  The end of the inline relay (the
\* one reading from the client) ends the tunnel task.
RelayEnd(c, p, item) ==
    /\ relay[c][p] = "run"
    /\ rd[c][p] = Len(sentBy[c][p])
    /\ down[c][p] = "down"
    /\ item \in {"None", "Some(Err)"}
    /\ relay' = [relay EXCEPT ![c] =
                   [q \in Peers |-> IF q = p THEN AfterRead(item) ELSE Detached(@[q])]]
    /\ tunnel' = [tunnel EXCEPT ![c].state =
                    IF p = "client" /\ AfterRead(item) = "done" THEN "finished" ELSE @]
    /\ UNCHANGED <<config, last_accept, pipe, acceptor, nconn, nreq, nmsg, conn, http, sentBy,
                   rd, got, down>>

Next ==
    \/ Accept
    \/ \E c \in Conns, r \in Requests : HandleRequest(c, r)
    \/ \E c \in Conns : Lookup(c)
    \/ \E c \in Conns, ur \in UpstreamResponses : SendOk(c, ur)
    \/ \E c \in Conns : SendErr(c)
    \/ \E c \in Conns, result \in {"ok", "err"} : ReadBody(c, result)
    \/ \E c \in Conns : TunnelStart(c)
    \/ \E c \in Conns, ok \in BOOLEAN : WsAwait(c, ok)
    \/ \E c \in Conns, ok \in BOOLEAN : Connect(c, ok)
    \/ \E c \in Conns, p \in Peers, m \in Messages : PeerSend(c, p, m)
    \/ \E c \in Conns, p \in Peers : PeerDown(c, p)
    \/ \E c \in Conns, p \in Peers : RelayForward(c, p)
    \/ \E c \in Conns, p \in Peers, item \in {"None", "Some(Err)"} : RelayEnd(c, p, item)

Spec == Init /\ [][Next]_vars

(***************************************************************************)
(* The gateway while the peers of its tunnels send nothing (they may still *)
(* close): the state space of several connections stays small.             *)
(***************************************************************************)
NextQuiet ==
    \/ Accept
    \/ \E c \in Conns, r \in Requests : HandleRequest(c, r)
    \/ \E c \in Conns : Lookup(c)
    \/ \E c \in Conns, ur \in UpstreamResponses : SendOk(c, ur)
    \/ \E c \in Conns : SendErr(c)
    \/ \E c \in Conns, result \in {"ok", "err"} : ReadBody(c, result)
    \/ \E c \in Conns : TunnelStart(c)
    \/ \E c \in Conns, ok \in BOOLEAN : WsAwait(c, ok)
    \/ \E c \in Conns, ok \in BOOLEAN : Connect(c, ok)
    \/ \E c \in Conns, p \in Peers : PeerDown(c, p)
    \/ \E c \in Conns, p \in Peers, item \in {"None", "Some(Err)"} : RelayEnd(c, p, item)

SpecQuiet == Init /\ [][NextQuiet]_vars

(***************************************************************************)
(* The gateway serving its first connection only, tunnel traffic included. *)
(***************************************************************************)
NextOne ==
    \/ Accept /\ nconn = 0
    \/ \E r \in Requests : HandleRequest(1, r)
    \/ Lookup(1)
    \/ \E ur \in UpstreamResponses : SendOk(1, ur)
    \/ SendErr(1)
    \/ \E result \in {"ok", "err"} : ReadBody(1, result)
    \/ TunnelStart(1)
    \/ \E ok \in BOOLEAN : WsAwait(1, ok)
    \/ \E ok \in BOOLEAN : Connect(1, ok)
    \/ \E p \in Peers, m \in Messages : PeerSend(1, p, m)
    \/ \E p \in Peers : PeerDown(1, p)
    \/ \E p \in Peers : RelayForward(1, p)
    \/ \E p \in Peers, item \in {"None", "Some(Err)"} : RelayEnd(1, p, item)

SpecOne == Init /\ [][NextOne]_vars

\* The same, with the runtime's scheduling: a relay task that has a message to
\* read is eventually polled.
SpecOneFair ==
    SpecOne /\ \A p \in Peers : WF_vars(RelayForward(1, p))

\* The same, where a relay task whose read half has ended is eventually
\* polled as well.
SpecTunnelFair ==
    /\ SpecOne
    /\ \A p \in Peers : WF_vars(RelayForward(1, p))
    /\ \A p \in Peers : WF_vars(\E item \in {"None", "Some(Err)"} : RelayEnd(1, p, item))

(***************************************************************************)
(* Keep-alive connections on which the client pipelines plain requests:    *)
(* it writes them ahead, the connection task reads them one by one.        *)
(***************************************************************************)
PipeRequests == {r \in Requests : ~IsUpgradeRequest(r)}

NextPipe ==
    \/ Accept
    \/ \E c \in Conns, r \in PipeRequests : ClientSend(c, r)
    \/ \E c \in Conns : ReadRequest(c)
    \/ \E c \in Conns : Lookup(c)
    \/ \E c \in Conns, ur \in UpstreamResponses : SendOk(c, ur)
    \/ \E c \in Conns : SendErr(c)
    \/ \E c \in Conns, result \in {"ok", "err"} : ReadBody(c, result)

SpecPipe == Init /\ [][NextPipe]_vars

(***************************************************************************)
(* The gateway with a listener whose accept can fail, while requests are   *)
(* in flight and tunnels are being established.                            *)
(***************************************************************************)
NextAccept ==
    \/ Accept
    \/ AcceptErr
    \/ \E c \in Conns, r \in Requests : HandleRequest(c, r)
    \/ \E c \in Conns : Lookup(c)
    \/ \E c \in Conns, ur \in UpstreamResponses : SendOk(c, ur)
    \/ \E c \in Conns : SendErr(c)
    \/ \E c \in Conns, result \in {"ok", "err"} : ReadBody(c, result)
    \/ \E c \in Conns : TunnelStart(c)
    \/ \E c \in Conns, ok \in BOOLEAN : WsAwait(c, ok)
    \/ \E c \in Conns, ok \in BOOLEAN : Connect(c, ok)

SpecAccept == Init /\ [][NextAccept]_vars

(***************************************************************************)
(* The first connection again, where the page whose policy is written on   *)
(* two lines is requested as well.                                         *)
(***************************************************************************)
NextPage ==
    \/ \E r \in PageRequests : HandleRequest(1, r)
    \/ NextOne

SpecPage == Init /\ [][NextPage]_vars

(***************************************************************************)
(* The configuration the specification describes, with a response-mutation *)
(* hook registered, served by the handler as it is.                        *)
(***************************************************************************)
HookHeaders ==
    ("Content-Type" :> "text/plain") @@ ("X-Frame-Options" :> "DENY")

InitHook ==
    /\ is_dev \in BOOLEAN
    /\ dev_url \in DevUrls
    /\ on_request = "hook"
    /\ InitTasks

SpecHook == InitHook /\ [][NextOne]_vars

(***************************************************************************)
(* Vocabulary of the properties.                                           *)
(***************************************************************************)
\* The handling of c's current request has ended: a response was returned,
\* the handler returned an error, or its task panicked.
Ended(c) == req[c] # NoReq /\ pc[c] \in {"done", "error", "panicked"}

Resolvable(path) == ResolverGet(path) # NoAsset

DevProxyOn == is_dev /\ dev_url # NoUrl

ContentTypes(r) == {h \in r.headers : h[1] = "content-type"}

\* An upstream WebSocket connection was attempted for c.
WsAttempted(c) ==
    tunnel[c].state \in {"connecting", "open", "finished", "failed_connect"}

C2_NotFoundNoUpstream ==
    \A c \in Conns :
        (req[c] # NoReq /\ ~Resolvable(req[c].path) /\ ~DevProxyOn) =>
            /\ pc[c] = "done" => resp[c] = NotFoundResponse
            /\ upstream[c] = <<>>
            /\ ~WsAttempted(c)

(***************************************************************************)
(* C3.  For a plain request whose path the resolver misses, with dev-mode  *)
(* on and a dev-server URL: once its handling has ended it was forwarded   *)
(* exactly once, to the base URL joined with the path, with the request's  *)
(* method and headers; and when the upstream answered in full, the         *)
(* response carries the upstream's status, headers and body.               *)
(***************************************************************************)
C3_ForwardedOnce ==
    \A c \in Conns :
        (Ended(c) /\ ~IsUpgradeRequest(req[c]) /\ ~Resolvable(req[c].path) /\ DevProxyOn) =>
            /\ Len(upstream[c]) = 1
            /\ upstream[c][1].method = req[c].method
            /\ upstream[c][1].url = Join(dev_url, req[c].path)
            /\ upstream[c][1].headers = req[c].headers
            /\ uout[c] = "ok" => resp[c] = proxy_res[c]

(***************************************************************************)
(* C4.  When the exchange with the dev server failed, at the send or while *)
(* the body was received, the client gets status 502 with an empty body    *)
(* and the connection goes on serving requests.                            *)
(***************************************************************************)
C4_UpstreamFailureIs502 ==
    \A c \in Conns :
        (Ended(c) /\ uout[c] \in {"send_err", "body_err"}) =>
            /\ resp[c].status = 502
            /\ resp[c].body = ""
            /\ conn[c] = "open"

(***************************************************************************)
(* C5.  In a tunnel, in each direction: what has been delivered to a peer  *)
(* is always, message for message and in order, a prefix of what the other *)
(* peer sent (nothing changed, duplicated, reordered or invented), and     *)
(* while the receiving peer is up it is everything the relay has read; and *)
(* the k-th message a peer sends is eventually delivered to the other      *)
(* peer, unless that peer has gone down.                                   *)
(***************************************************************************)
DeliveredInOrder ==
    \A c \in Conns : \A p \in Peers :
        /\ Len(got[c][Other(p)]) <= rd[c][p]
        /\ rd[c][p] <= Len(sentBy[c][p])
        /\ got[c][Other(p)] = SubSeq(sentBy[c][p], 1, Len(got[c][Other(p)]))
        /\ down[c][Other(p)] = "up" => Len(got[c][Other(p)]) = rd[c][p]

C5_TunnelDelivers ==
    /\ []DeliveredInOrder
    /\ \A p \in Peers : \A k \in 1 .. MaxMsgs :
          (Len(sentBy[1][p]) >= k)
              ~> (Len(got[1][Other(p)]) >= k \/ down[1][Other(p)] = "down")

\* C5's case: in an open tunnel with both peers up, the dev server has
\* received the client's two different messages in the order sent.
C5_Witness ==
    \E c \in Conns :
        /\ tunnel[c].state = "open"
        /\ \A p \in Peers : down[c][p] = "up"
        /\ got[c]["server"] = <<"Ping", "Close">>
        /\ sentBy[c]["client"] = <<"Ping", "Close">>

(***************************************************************************)
(* C6.  Routing is total and mutually exclusive: a request being handled   *)
(* has entered at most one route, a request whose handling has ended has   *)
(* entered exactly one, and it ended the way that route ends: the upgrade  *)
(* route with 101 or the upgrade error, ServeAsset with 200, NotFound with *)
(* 404, ProxyHttp with the upstream's status, 502, or the panic of its     *)
(* join.                                                                   *)
(***************************************************************************)
C6_ExactlyOneRoute ==
    \A c \in Conns :
        /\ Cardinality(routes[c]) <= 1
        /\ routes[c] \subseteq {"UpgradeToWebSocket", "ServeAsset", "ProxyHttp", "NotFound"}
        /\ Ended(c) =>
              /\ Cardinality(routes[c]) = 1
              /\ "UpgradeToWebSocket" \in routes[c] <=> IsUpgradeRequest(req[c])
              /\ "UpgradeToWebSocket" \in routes[c] => resp[c].status \in {101, 0}
              /\ "ServeAsset" \in routes[c] => resp[c].status = 200
              /\ "NotFound" \in routes[c] => resp[c].status = 404
              /\ "ProxyHttp" \in routes[c] =>
                    \/ pc[c] = "panicked"
                    \/ resp[c].status = 502
                    \/ \E ur \in UpstreamResponses : resp[c].status = ur.status

\* C6's case: a plain request with the dev proxy configured has ended on
\* the ProxyHttp route alone.
C6_Witness ==
    \E c \in Conns : Ended(c) /\ pc[c] = "done" /\ routes[c] = {"ProxyHttp"}

(***************************************************************************)
(* C7.  With a hook registered: an asset response has had the hook invoked *)
(* exactly once, and carries the hook's header writes, which override the  *)
(* defaults; any other response has had it invoked never.                  *)
(***************************************************************************)
C7_HookInvokedOnce ==
    \A c \in Conns :
        (on_request # None /\ pc[c] = "done") =>
            IF routes[c] = {"ServeAsset"}
            THEN /\ hookCalls[c] = 1
                 /\ <<"content-type", HookHeaders["Content-Type"]>> \in resp[c].headers
                 /\ ContentTypes(resp[c]) = {<<"content-type", HookHeaders["Content-Type"]>>}
            ELSE hookCalls[c] = 0

(***************************************************************************)
(* C8.  Requests on different connections never mix: whatever the other    *)
(* connections are doing, a plain request for an existing asset ends with  *)
(* status 200 and the Content-Type, Content-Security-Policy and bytes of   *)
(* the asset of its own path.                                              *)
(***************************************************************************)
C8_OwnAssetOnly ==
    \A c \in Conns :
        (pc[c] \in {"done", "error", "panicked"} /\ req[c] \in Requests
            /\ ~IsUpgradeRequest(req[c]) /\ req[c].path \in DOMAIN Assets) =>
            /\ pc[c] = "done"
            /\ resp[c] = AssetResponse(Assets[req[c].path])

\* C8's case: two connections have each been answered with a different
\* asset.
C8_Witness ==
    \E c, d \in Conns :
        /\ c # d
        /\ pc[c] = "done" /\ pc[d] = "done"
        /\ resp[c].status = 200 /\ resp[d].status = 200
        /\ resp[c].body # resp[d].body

(***************************************************************************)
(* C9.  Whatever fails on one connection (an upstream error, a tunnel that *)
(* cannot be established, a relay that ends on an error, a panic of the    *)
(* handler or of the tunnel task), the accept loop keeps accepting, and a  *)
(* request on any connection ends the way its own request, the             *)
(* configuration and its own upstream's answer decide.                     *)
(***************************************************************************)
OwnOutcome(c) ==
    IF IsUpgradeRequest(req[c])
    THEN IF UpgradeOk(req[c]) THEN UpgradeResponse ELSE NoResp
    ELSE IF Resolvable(req[c].path)
    THEN [status |-> 200,
          headers |-> {<<"content-type", Assets[req[c].path].mime_type>>}
                      \cup (IF Assets[req[c].path].csp_header = None THEN {}
                            ELSE {<<"content-security-policy",
                                    Assets[req[c].path].csp_header>>}),
          body |-> Assets[req[c].path].bytes]
    ELSE IF ~DevProxyOn THEN NotFoundResponse
    ELSE IF uout[c] = "send_err" THEN BadGatewayResponse
    ELSE IF uout[c] = "ok" THEN proxy_res[c]
    ELSE IF uout[c] = "body_err" THEN [proxy_res[c] EXCEPT !.body = ""]
    ELSE NoResp

C9_FailuresStayLocal ==
    /\ acceptor = "accepting"
    /\ nconn < MaxConns => ENABLED Accept
    /\ \A c \in Conns : Ended(c) => resp[c] = OwnOutcome(c)

\* C9's case: one connection's task has panicked, or its tunnel failed or
\* panicked, and another connection has been answered with its asset.
C9_Witness ==
    \E c, d \in Conns :
        /\ c # d
        /\ \/ conn[d] = "panicked"
           \/ tunnel[d].state \in {"panicked", "failed_connect"}
        /\ pc[c] = "done" /\ resp[c].status = 200 /\ conn[c] = "open"
        /\ acceptor = "accepting"

(***************************************************************************)
(* C10.  A request whose path does not join onto the dev-server base URL   *)
(* fails closed: its connection task and its tunnel task never panic, and  *)
(* a plain request routed to the proxy ends with 404 or 502.               *)
(***************************************************************************)
C10_JoinFailureFailsClosed ==
    \A c \in Conns :
        (req[c] # NoReq /\ dev_url # NoUrl /\ Join(dev_url, req[c].path) = ErrUrl) =>
            /\ conn[c] # "panicked"
            /\ tunnel[c].state # "panicked"
            /\ (Ended(c) /\ "ProxyHttp" \in routes[c]) => resp[c].status \in {404, 502}

(***************************************************************************)
(* C11.  Every request sent to the dev server for an inbound request with  *)
(* a non-empty body carries that body unchanged.                           *)
(***************************************************************************)
C11_BodyForwarded ==
    \A c \in Conns :
        req[c].body # "" =>
            \A i \in 1 .. Len(upstream[c]) : upstream[c][i].body = req[c].body

(***************************************************************************)
(* C12.  An upgrade is accepted towards a tunnel (101 returned, tunnel     *)
(* task spawned), and a WebSocket connection to the dev server attempted,  *)
(* only when dev-mode is on, a dev-server URL is configured and the        *)
(* resolver misses the request's path.                                     *)
(***************************************************************************)
C12_TunnelOnlyWhenDevProxy ==
    \A c \in Conns :
        ~(DevProxyOn /\ ~Resolvable(req[c].path)) =>
            /\ tunnel[c].state = "none"
            /\ resp[c].status # 101
            /\ ~WsAttempted(c)

(***************************************************************************)
(* C13.  A tunnel whose establishment failed (the inbound handshake, the   *)
(* connection to the dev server, or the building of the ws URL) has never  *)
(* started a relay and never forwarded a message in either direction; the  *)
(* upgrade response 101 is what the client was given, and the connection   *)
(* got no other status.                                                    *)
(***************************************************************************)
TunnelFailed(c) ==
    tunnel[c].state \in {"failed_handshake", "failed_connect", "panicked"}

C13_FailedTunnelRelaysNothing ==
    \A c \in Conns :
        TunnelFailed(c) =>
            /\ \A p \in Peers :
                  /\ relay[c][p] = "none"
                  /\ rd[c][p] = 0
                  /\ got[c][p] = <<>>
            /\ resp[c] = UpgradeResponse
            /\ conn[c] = "upgraded"

\* C13's case: the dev server refused the WebSocket connection after the
\* inbound handshake had completed.
C13_Witness ==
    \E c \in Conns :
        /\ tunnel[c].state = "failed_connect"
        /\ resp[c].status = 101

(***************************************************************************)
(* C14.  The two relays of a tunnel end independently: a relay has ended   *)
(* only because its own read half ended or erred, with everything its peer *)
(* had sent read; the end of one relay leaves the other as it was; and a   *)
(* relay that has a message to read can forward it whether or not the      *)
(* other relay has ended.                                                  *)
(***************************************************************************)
OwnReadEnded(c, p) == down[c][p] = "down" /\ rd[c][p] = Len(sentBy[c][p])

C14_RelaysEndIndependently ==
    /\ [](\A p \in Peers :
            /\ relay[1][p] = "done" => OwnReadEnded(1, p)
            /\ (relay[1][p] = "run" /\ rd[1][p] < Len(sentBy[1][p])) =>
                  ENABLED RelayForward(1, p))
    /\ [][\A p \in Peers :
            (relay[1][p] = "run" /\ relay'[1][p] = "done") =>
                relay'[1][Other(p)] = relay[1][Other(p)]]_vars

\* C14's case: the relay reading from the client has ended and the tunnel
\* task with it, while the relay reading from the dev server is running
\* with a message still to forward.
C14_Witness ==
    /\ relay[1]["client"] = "done"
    /\ relay[1]["server"] = "run"
    /\ rd[1]["server"] < Len(sentBy[1]["server"])

(***************************************************************************)
(* C15.  A relay whose read half has ended or erred, with nothing left to  *)
(* read, can only terminate; a relay that has terminated stays terminated  *)
(* and reads and forwards nothing more; and once both peers of a tunnel    *)
(* have closed or erred, both relays eventually terminate and the tunnel   *)
(* task ends, when the relay tasks are scheduled fairly.                   *)
(***************************************************************************)
C15_RelaysTerminate ==
    /\ [](\A p \in Peers :
            (relay[1][p] = "run" /\ OwnReadEnded(1, p)) =>
                /\ ~ENABLED RelayForward(1, p)
                /\ ENABLED RelayEnd(1, p, "None"))
    /\ [][\A p \in Peers :
            relay[1][p] = "done" =>
                /\ relay'[1][p] = "done"
                /\ rd'[1][p] = rd[1][p]
                /\ got'[1][Other(p)] = got[1][Other(p)]]_vars
    /\ (\A p \in Peers : down[1][p] = "down")
          ~> (tunnel[1].state = "finished" /\ \A p \in Peers : relay[1][p] = "done")

\* C15's case: both peers have gone, both relays have terminated after
\* forwarding a message, and the tunnel task has ended.
C15_Witness ==
    /\ \A p \in Peers : down[1][p] = "down" /\ relay[1][p] = "done"
    /\ tunnel[1].state = "finished"
    /\ got[1]["server"] # <<>>

(***************************************************************************)
(* C19.  A relay step whose send fails, because the destination has        *)
(* closed, loses that message and leaves the relay running; the relay can  *)
(* go on reading whenever its source has a message left; and under fair    *)
(* scheduling it drains its source: again and again it has read everything *)
(* the source has sent, whether or not the destination is still there.     *)
(***************************************************************************)
C19_FailedSendKeepsRelay ==
    /\ [][\A p \in Peers :
            (rd'[1][p] = rd[1][p] + 1 /\ down[1][Other(p)] = "down") =>
                /\ relay'[1][p] = "run"
                /\ got'[1][Other(p)] = got[1][Other(p)]]_vars
    /\ [](\A p \in Peers :
            (relay[1][p] # "none" /\ rd[1][p] < Len(sentBy[1][p])) =>
                ENABLED RelayForward(1, p))
    /\ \A p \in Peers : []<>(rd[1][p] = Len(sentBy[1][p]))

\* C19's case: the dev server has closed, and the relay reading from the
\* client has read two messages, lost both, and is still running.
C19_Witness ==
    /\ down[1]["server"] = "down"
    /\ relay[1]["client"] = "run"
    /\ rd[1]["client"] = 2
    /\ got[1]["server"] = <<>>

(***************************************************************************)
(* C16.  As claimed: a served-asset response carries a                     *)
(* Content-Security-Policy header if and only if the resolver supplied one *)
(* for the asset, with exactly the supplied value; and the fixed policy    *)
(* default-src 'none' appears only on 404 responses.                       *)
(***************************************************************************)
Policies(r) == {h \in r.headers : h[1] = "content-security-policy"}

FixedPolicyOn404Only ==
    \A c \in Conns :
        (pc[c] = "done" /\ <<"content-security-policy", "default-src 'none'">> \in resp[c].headers)
            => resp[c].status = 404

C16_PolicyIffSupplied ==
    /\ \A c \in Conns :
          (pc[c] = "done" /\ routes[c] = {"ServeAsset"}) =>
              Policies(resp[c]) =
                  IF Assets[req[c].path].csp_header # None
                  THEN {<<"content-security-policy", Assets[req[c].path].csp_header>>}
                  ELSE {}
    /\ FixedPolicyOn404Only

(***************************************************************************)
(* C16, amended.  A served-asset response carries a                        *)
(* Content-Security-Policy header if and only if the resolver supplied one *)
(* for the asset and the supplied value is a valid header value, with      *)
(* exactly the supplied value; and the fixed policy default-src 'none'     *)
(* appears only on 404 responses.                                          *)
(***************************************************************************)
C16_PolicyIffSuppliedAndValid ==
    /\ \A c \in Conns :
          (pc[c] = "done" /\ routes[c] = {"ServeAsset"}) =>
              Policies(resp[c]) =
                  IF /\ Assets[req[c].path].csp_header # None
                     /\ HeaderValueOk(Assets[req[c].path].csp_header)
                  THEN {<<"content-security-policy", Assets[req[c].path].csp_header>>}
                  ELSE {}
    /\ FixedPolicyOn404Only

\* C16's case: the page whose policy is no valid header value has been
\* served, without a policy.
C16_Witness ==
    \E c \in Conns :
        /\ pc[c] = "done" /\ routes[c] = {"ServeAsset"}
        /\ req[c].path = PagePath
        /\ resp[c].status = 200
        /\ Policies(resp[c]) = {}

(***************************************************************************)
(* C17.  On a keep-alive connection the responses are written in the order *)
(* the requests were written: the i-th response written on a connection    *)
(* was produced by the handler for the i-th request the client wrote on    *)
(* it, and is an answer to that request (its asset, the 404, or the dev    *)
(* server's answer or 502), however slow the earlier requests were.        *)
(***************************************************************************)
Written(c) ==
    wire[c] \o (IF pc[c] = "done" THEN <<[req |-> req[c], resp |-> resp[c]]>> ELSE <<>>)

AnswerTo(r, a) ==
    IF Resolvable(r.path) THEN a = AssetResponse(Assets[r.path])
    ELSE IF ~DevProxyOn THEN a = NotFoundResponse
    ELSE a.status \in {502} \cup {ur.status : ur \in UpstreamResponses}

C17_InSubmissionOrder ==
    \A c \in Conns :
        /\ Len(Written(c)) <= Len(sent[c])
        /\ \A i \in 1 .. Len(Written(c)) :
              /\ Written(c)[i].req = sent[c][i]
              /\ AnswerTo(sent[c][i], Written(c)[i].resp)

\* C17's case: a request proxied to the dev server and, pipelined behind
\* it, a request for an asset; both answered, the proxied one first.
C17_Witness ==
    \E c \in Conns :
        /\ Len(sent[c]) = 2 /\ Len(Written(c)) = 2
        /\ sent[c][1].path = ApiPath /\ Written(c)[1].resp.body = "pong"
        /\ sent[c][2].path = IndexPath /\ Written(c)[2].resp = AssetResponse(Assets[IndexPath])

(***************************************************************************)
(* C18.  The lock around the resolver is never write-locked: its read      *)
(* guards are held by exactly the handlers that are between the lookup and *)
(* the end of their exchange with the dev server, any number of them at    *)
(* once, and a handler waiting for the lock can always take it.            *)
(***************************************************************************)
C18_ReadLockOnly ==
    /\ resolver_lock.writer = 0
    /\ resolver_lock.readers = {c \in Conns : pc[c] \in {"send", "body"}}
    /\ \A c \in Conns : pc[c] = "lock" => ENABLED Lookup(c)

\* C18's case: a handler waits for the lock while another holds its read
\* guard across the exchange with the dev server.
C18_Witness ==
    \E c, d \in Conns :
        /\ pc[c] = "lock"
        /\ pc[d] = "send" /\ d \in resolver_lock.readers
        /\ ENABLED Lookup(c)

(***************************************************************************)
(* C20.  The accept loop never ends: a failed accept leaves it accepting,  *)
(* another accept can always fail or, below the bound on connections,      *)
(* succeed, whatever the connections, requests and tunnels are doing, and  *)
(* the connections accepted so far are exactly those with a task.          *)
(***************************************************************************)
C20_AcceptorNeverStops ==
    /\ acceptor = "accepting"
    /\ ENABLED AcceptErr
    /\ nconn < MaxConns => ENABLED Accept
    /\ \A c \in Conns : (c <= nconn) <=> (conn[c] # "none")

\* C20's case: the latest accept failed while a request is waiting for the
\* dev server on the first connection, and the next accept can succeed.
C20_Witness ==
    /\ last_accept = "err"
    /\ nconn = 1
    /\ pc[1] = "send"
    /\ ENABLED Accept

====
